---- MODULE Spec2Model ----
(***************************************************************************)
(* Recurring-transaction processing of the expense tracker.                *)
(*                                                                         *)
(* Stored calendar dates ('YYYY-MM-DD' strings of the date columns) are    *)
(* day numbers counted from 1970-01-01; instants (JavaScript Date values)  *)
(* are whole hours counted from 1970-01-01T00:00Z.  The host's UTC offset  *)
(* is a whole number of hours: local time = UTC + tz.                      *)
(* A nullable column holds Null (<<>>) or <<v>>.                           *)
(***************************************************************************)
EXTENDS Integers, Sequences, FiniteSets, TLC

VARIABLES
    tz,        \* UTC offset of the host process, fixed for a behaviour
    now,       \* the host clock: the instant new Date() returns
    categories,\* categories table: id -> row
    defs,      \* recurring_transactions table: id -> row
    nextId,    \* serial of recurring_transactions.id
    txs,       \* transactions table, in insertion order
    run,       \* invocations of processRecurringTransactions: slot -> locals
    runs,      \* number of invocations started so far
    lastRunDate,\* host calendar date of the latest invocation, Null before it
    nextCatId, \* serial of categories.id
    nextTxId,  \* serial of transactions.id
    budgets,   \* budgets table: id -> row
    nextBudgetId, \* serial of budgets.id
    runDates,  \* host calendar dates of the invocations so far, for the properties
    response   \* the last HTTP response sent

vars == <<tz, now, categories, defs, nextId, txs, run, runs, lastRunDate,
          nextCatId, nextTxId, budgets, nextBudgetId, runDates, response>>

-----------------------------------------------------------------------------
(* Bounds *)

MaxDefs == 2        \* rows ever inserted into recurring_transactions
MaxRuns == 2        \* invocations of the processor
MaxDays == 1        \* calendar days the clock can move past the first one
MaxNewCats == 1     \* rows inserted into categories after the seeded ones
MaxTxs == 1         \* rows ever inserted into transactions by the endpoint
MaxBudgets == 1     \* rows ever inserted into budgets

-----------------------------------------------------------------------------
(* Calendar arithmetic of the JavaScript Date object *)

Null == <<>>

\* Day number of the civil date y-m-d (proleptic Gregorian, m in 1..12).
DaysFromCivil(y, m, d) ==
    LET yy  == IF m <= 2 THEN y - 1 ELSE y
        era == yy \div 400
        yoe == yy - era * 400
        mp  == IF m > 2 THEN m - 3 ELSE m + 9
        doy == (153 * mp + 2) \div 5 + d - 1
        doe == yoe * 365 + yoe \div 4 - yoe \div 100 + doy
    IN  era * 146097 + doe - 719468

\* The civil date of day number n, as <<year, month (1..12), day>>.
CivilFromDays(n) ==
    LET z   == n + 719468
        era == z \div 146097
        doe == z - era * 146097
        yoe == (doe - doe \div 1460 + doe \div 36524 - doe \div 146096) \div 365
        doy == doe - (365 * yoe + yoe \div 4 - yoe \div 100)
        mp  == (5 * doy + 2) \div 153
        d   == doy - (153 * mp + 2) \div 5 + 1
        m   == IF mp < 10 THEN mp + 3 ELSE mp - 9
        y   == yoe + era * 400 + (IF m <= 2 THEN 1 ELSE 0)
    IN  <<y, m, d>>

\* new Date('YYYY-MM-DD'): a date-only string is parsed as UTC midnight.
ParseDate(d) == d * 24

\* The host's calendar date at instant t.
LocalDay(t, off) == (t + off) \div 24

\* date.setHours(0, 0, 0, 0): midnight, local time, of the local date of t.
SetHoursZero(t, off) == LocalDay(t, off) * 24 - off

\* date.toISOString().split('T')[0]: the UTC calendar date of t.
ToISODate(t) == t \div 24

\* Variant: the weekday is taken in UTC (getUTCDay) instead of local time.
GetUTCDay(t, off) == (ToISODate(t) + 4) % 7

\* date.getDay(): local weekday, 0 = Sunday (1970-01-01 was a Thursday).
GetDay(t, off) == (LocalDay(t, off) + 4) % 7

\* date.getDate(): local day of the month, 1..31.
GetDate(t, off) == CivilFromDays(LocalDay(t, off))[3]

\* date.getMonth(): local month, 0..11.
GetMonth(t, off) == CivilFromDays(LocalDay(t, off))[2] - 1

-----------------------------------------------------------------------------
(* The window of dates and host configurations explored *)

FirstDay == DaysFromCivil(2024, 1, 7)          \* a Sunday
LongAgo  == DaysFromCivil(2023, 1, 8)          \* a year before FirstDay + 1
Days     == FirstDay .. (FirstDay + MaxDays)
HostOffsets == {0 - 5, 0, 2}                   \* UTC-5, UTC, UTC+2
DefIds   == 1 .. MaxDefs
SystemUser == 1                                \* owner of the seeded categories
Users    == {2, 3}                             \* registered, logged-in users
CatIds   == {1, 2, 3}
ProcIds  == {1}                                \* the invocation of a sequential run
RaceIds  == {1, 2}                             \* two invocations that may overlap

-----------------------------------------------------------------------------
(* The per-definition decision of processRecurringTransactions *)

\* "Skip if already processed today"
AlreadyProcessed(rt, today, off) ==
    /\ rt.lastProcessedDate # Null
    /\ SetHoursZero(ParseDate(rt.lastProcessedDate[1]), off) = today

\* "Skip if end date is in the past"
EndDatePassed(rt, today) ==
    /\ rt.endDate # Null
    /\ ParseDate(rt.endDate[1]) < today

\* "Skip if start date is in the future"
StartDateInFuture(rt, today) == ParseDate(rt.startDate) > today

\* Number of days of the month calendar date d lies in.
DaysInMonth(d) ==
    LET c == CivilFromDays(d)
        first == DaysFromCivil(c[1], c[2], 1)
        next  == IF c[2] = 12 THEN DaysFromCivil(c[1] + 1, 1, 1)
                 ELSE DaysFromCivil(c[1], c[2] + 1, 1)
    IN  next - first

\* Variant: a monthly dayOfMonth beyond the end of the month rolls over to the
\* last day of the month.
FrequencyMatchesWithRollover(rt, today, off) ==
    CASE rt.frequency = "daily"   -> TRUE
      [] rt.frequency = "weekly"  ->
            rt.dayOfWeek # Null /\ rt.dayOfWeek[1] = GetDay(today, off)
      [] rt.frequency = "monthly" ->
            /\ rt.dayOfMonth # Null
            /\ \/ rt.dayOfMonth[1] = GetDate(today, off)
               \/ /\ rt.dayOfMonth[1] > DaysInMonth(LocalDay(today, off))
                  /\ GetDate(today, off) = DaysInMonth(LocalDay(today, off))
      [] rt.frequency = "yearly"  ->
            /\ GetDate(ParseDate(rt.startDate), off) = GetDate(today, off)
            /\ GetMonth(ParseDate(rt.startDate), off) = GetMonth(today, off)
      [] OTHER -> FALSE

\* Variant: a frequency the switch has no case for is processed on every
\* date, and a missing anchor is read as the first one.
FrequencyMatchesLenient(rt, today, off) ==
    CASE rt.frequency = "daily"   -> TRUE
      [] rt.frequency = "weekly"  ->
            (IF rt.dayOfWeek = Null THEN 0 ELSE rt.dayOfWeek[1])
               = GetDay(today, off)
      [] rt.frequency = "monthly" ->
            (IF rt.dayOfMonth = Null THEN 1 ELSE rt.dayOfMonth[1])
               = GetDate(today, off)
      [] rt.frequency = "yearly"  ->
            /\ GetDate(ParseDate(rt.startDate), off) = GetDate(today, off)
            /\ GetMonth(ParseDate(rt.startDate), off) = GetMonth(today, off)
      [] OTHER -> TRUE

\* The switch on rt.frequency.
FrequencyMatches(rt, today, off) ==
    CASE rt.frequency = "daily"   -> TRUE
      [] rt.frequency = "weekly"  ->
            rt.dayOfWeek # Null /\ rt.dayOfWeek[1] = GetDay(today, off)
      [] rt.frequency = "monthly" ->
            rt.dayOfMonth # Null /\ rt.dayOfMonth[1] = GetDate(today, off)
      [] rt.frequency = "yearly"  ->
            /\ GetDate(ParseDate(rt.startDate), off) = GetDate(today, off)
            /\ GetMonth(ParseDate(rt.startDate), off) = GetMonth(today, off)
      [] OTHER -> FALSE

\* Whether the loop body reaches "if (shouldProcess)" with shouldProcess true.
shouldProcess(rt, today, off) ==
    /\ ~AlreadyProcessed(rt, today, off)
    /\ ~EndDatePassed(rt, today)
    /\ ~StartDateInFuture(rt, today)
    /\ FrequencyMatches(rt, today, off)

\* today.toISOString().split('T')[0]
formattedDate(today) == ToISODate(today)

-----------------------------------------------------------------------------
(* State of one invocation of processRecurringTransactions *)

\* No invocation in this slot.
IdleRun ==
    [pc |-> "idle", no |-> 0, allRecurringTxs |-> <<>>, idx |-> 0, today |-> 0,
     transactionsCreated |-> 0, errors |-> {}]

AllIdle == \A p \in DOMAIN run : run[p].pc = "idle"

\* The rows a SELECT without ORDER BY may return, in any order.
Orders(S) ==
    {s \in [1 .. Cardinality(S) -> S] :
        \A i, j \in 1 .. Cardinality(S) : s[i] = s[j] => i = j}

\* Variant: the listing does not filter on isActive.
AllIds == DOMAIN defs

ActiveIds == {id \in DOMAIN defs : defs[id].isActive}

\* The definition the for-loop of invocation p is at.
CurrentRt(p) == run[p].allRecurringTxs[run[p].idx]

InLoopBody(p) ==
    /\ run[p].pc = "loop"
    /\ run[p].idx <= Len(run[p].allRecurringTxs)

\* v || null, for a nullable text: the empty string is falsy
OrNullText(v) == IF v = <<"">> THEN Null ELSE v

\* The InsertTransaction built from rt; src and run record, for the properties
\* only, which definition and which invocation produced the row.
NewTransaction(rt, today, n) ==
    [userId |-> rt.userId, type |-> rt.type, amount |-> rt.amount,
     description |-> rt.description, date |-> formattedDate(today),
     categoryId |-> rt.categoryId, notes |-> rt.notes,
     src |-> rt.id, run |-> n]

\* DatabaseStorage.createTransaction: the row inserted for transaction.
createTransaction(transaction) ==
    [transaction EXCEPT !.notes = OrNullText(@)]

-----------------------------------------------------------------------------
(* processRecurringTransactions, one step per await *)

\* Variant: a process-wide lock lets one invocation run at a time.
BeginRunLocked(p) ==
    /\ AllIdle
    /\ runs < MaxRuns
    /\ \E order \in Orders(ActiveIds) :
          run' = [run EXCEPT ![p] =
                    [pc |-> "loop",
                     no |-> runs + 1,
                     allRecurringTxs |-> [k \in DOMAIN order |-> defs[order[k]]],
                     idx |-> 1,
                     today |-> SetHoursZero(now, tz),
                     transactionsCreated |-> 0,
                     errors |-> {}]]
    /\ runs' = runs + 1
    /\ lastRunDate' = <<LocalDay(now, tz)>>
    /\ runDates' = runDates \cup {LocalDay(now, tz)}
    /\ UNCHANGED <<tz, now, categories, nextCatId, defs, nextId, txs,
                   response, nextTxId, budgets, nextBudgetId>>

\* The SELECT of the active definitions succeeds; today is computed.  no is
\* the number of the invocation, for the properties only.
BeginRun(p) ==
    /\ run[p].pc = "idle"
    /\ runs < MaxRuns
    /\ \E order \in Orders(ActiveIds) :
          run' = [run EXCEPT ![p] =
                    [pc |-> "loop",
                     no |-> runs + 1,
                     allRecurringTxs |-> [k \in DOMAIN order |-> defs[order[k]]],
                     idx |-> 1,
                     today |-> SetHoursZero(now, tz),
                     transactionsCreated |-> 0,
                     errors |-> {}]]
    /\ runs' = runs + 1
    /\ lastRunDate' = <<LocalDay(now, tz)>>
    /\ runDates' = runDates \cup {LocalDay(now, tz)}
    /\ UNCHANGED <<tz, now, categories, nextCatId, defs, nextId, txs,
                   response, nextTxId, budgets, nextBudgetId>>

\* An invocation that starts while no other one is in progress.
StartRun(p) == AllIdle /\ BeginRun(p)

\* The SELECT of the active definitions throws: the invocation throws.
BeginListFail(p) ==
    /\ run[p].pc = "idle"
    /\ runs < MaxRuns
    /\ run' = [run EXCEPT ![p] = [IdleRun EXCEPT !.pc = "thrown",
                                                 !.no = runs + 1]]
    /\ runs' = runs + 1
    /\ lastRunDate' = <<LocalDay(now, tz)>>
    /\ runDates' = runDates \cup {LocalDay(now, tz)}
    /\ UNCHANGED <<tz, now, categories, nextCatId, defs, nextId, txs,
                   response, nextTxId, budgets, nextBudgetId>>

ListFail(p) == AllIdle /\ BeginListFail(p)

\* Variant: the first definition that is not due ends the loop (break in
\* place of continue).
ProcessSkipBreaks(p) ==
    /\ InLoopBody(p)
    /\ ~shouldProcess(CurrentRt(p), run[p].today, tz)
    /\ run' = [run EXCEPT ![p].idx = Len(run[p].allRecurringTxs) + 1]
    /\ UNCHANGED <<tz, now, categories, nextCatId, lastRunDate, defs, nextId,
                   txs, runs, response, nextTxId, budgets,
                   nextBudgetId, runDates>>

\* One of the three "continue"s, or shouldProcess stays false.
ProcessSkip(p) ==
    /\ InLoopBody(p)
    /\ ~shouldProcess(CurrentRt(p), run[p].today, tz)
    /\ run' = [run EXCEPT ![p].idx = @ + 1]
    /\ UNCHANGED <<tz, now, categories, nextCatId, lastRunDate, defs, nextId,
                   txs, runs, response, nextTxId, budgets,
                   nextBudgetId, runDates>>

\* shouldProcess is true and createTransaction succeeds.
CreateTx(p) ==
    /\ InLoopBody(p)
    /\ shouldProcess(CurrentRt(p), run[p].today, tz)
    /\ txs' = Append(txs, [id |-> nextTxId] @@ createTransaction(
                NewTransaction(CurrentRt(p), run[p].today, run[p].no)))
    /\ nextTxId' = nextTxId + 1
    /\ run' = [run EXCEPT ![p].pc = "created"]
    /\ UNCHANGED <<tz, now, categories, nextCatId, lastRunDate, defs, nextId,
                   runs, response, budgets,
                   nextBudgetId, runDates>>

\* shouldProcess is true and createTransaction throws: caught and logged.
CreateTxFail(p) ==
    /\ InLoopBody(p)
    /\ shouldProcess(CurrentRt(p), run[p].today, tz)
    /\ run' = [run EXCEPT ![p].errors = @ \cup {CurrentRt(p).id},
                          ![p].idx = @ + 1]
    /\ UNCHANGED <<tz, now, categories, nextCatId, lastRunDate, defs, nextId,
                   txs, runs, response, nextTxId, budgets,
                   nextBudgetId, runDates>>

\* Variant: the definition is written back whole from the row the invocation
\* read, {...rt, lastProcessedDate}, instead of one column being set.
UpdateLastProcessedFromSnapshot(p) ==
    /\ run[p].pc = "created"
    /\ defs' = [id \in DOMAIN defs \cup {CurrentRt(p).id} |->
                  IF id = CurrentRt(p).id
                  THEN [CurrentRt(p) EXCEPT
                          !.lastProcessedDate = <<formattedDate(run[p].today)>>]
                  ELSE defs[id]]
    /\ run' = [run EXCEPT ![p].pc = "loop",
                          ![p].transactionsCreated = @ + 1,
                          ![p].idx = @ + 1]
    /\ UNCHANGED <<tz, now, categories, nextCatId, lastRunDate, nextId, txs,
                   runs, response, nextTxId, budgets,
                   nextBudgetId, runDates>>

\* The UPDATE of lastProcessedDate succeeds; the counter is incremented.
UpdateLastProcessed(p) ==
    /\ run[p].pc = "created"
    /\ defs' = [id \in DOMAIN defs |->
                  IF id = CurrentRt(p).id
                  THEN [defs[id] EXCEPT
                          !.lastProcessedDate = <<formattedDate(run[p].today)>>]
                  ELSE defs[id]]
    /\ run' = [run EXCEPT ![p].pc = "loop",
                          ![p].transactionsCreated = @ + 1,
                          ![p].idx = @ + 1]
    /\ UNCHANGED <<tz, now, categories, nextCatId, lastRunDate, nextId, txs,
                   runs, response, nextTxId, budgets,
                   nextBudgetId, runDates>>

\* Variant: the catch sits outside the for-loop, so a failed UPDATE ends the
\* loop and the count so far is returned.
UpdateFailEndsLoop(p) ==
    /\ run[p].pc = "created"
    /\ run' = [run EXCEPT ![p].pc = "loop",
                          ![p].errors = @ \cup {CurrentRt(p).id},
                          ![p].idx = Len(run[p].allRecurringTxs) + 1]
    /\ UNCHANGED <<tz, now, categories, nextCatId, lastRunDate, defs, nextId,
                   txs, runs, response, nextTxId, budgets,
                   nextBudgetId, runDates>>

\* Variant: after a failed UPDATE the loop stays at the same definition.
UpdateFailRetries(p) ==
    /\ run[p].pc = "created"
    /\ run' = [run EXCEPT ![p].pc = "loop",
                          ![p].errors = @ \cup {CurrentRt(p).id}]
    /\ UNCHANGED <<tz, now, categories, nextCatId, lastRunDate, defs, nextId,
                   txs, runs, response, nextTxId, budgets,
                   nextBudgetId, runDates>>

\* The UPDATE of lastProcessedDate throws: caught and logged.
UpdateFail(p) ==
    /\ run[p].pc = "created"
    /\ run' = [run EXCEPT ![p].pc = "loop",
                          ![p].errors = @ \cup {CurrentRt(p).id},
                          ![p].idx = @ + 1]
    /\ UNCHANGED <<tz, now, categories, nextCatId, lastRunDate, defs, nextId,
                   txs, runs, response, nextTxId, budgets,
                   nextBudgetId, runDates>>

\* The loop is over: return transactionsCreated.
ReturnCount(p) ==
    /\ run[p].pc = "loop"
    /\ run[p].idx > Len(run[p].allRecurringTxs)
    /\ run' = [run EXCEPT ![p].pc = "returned"]
    /\ UNCHANGED <<tz, now, categories, nextCatId, lastRunDate, defs, nextId,
                   txs, runs, response, nextTxId, budgets,
                   nextBudgetId, runDates>>

-----------------------------------------------------------------------------
(* POST /api/recurring-transactions/process *)

\* res.json({success: true, transactionsCreated: numCreated, ...})
RespondCount(p) ==
    /\ run[p].pc = "returned"
    /\ response' = [status |-> 200,
                    transactionsCreated |-> <<run[p].transactionsCreated>>]
    /\ run' = [run EXCEPT ![p] = IdleRun]
    /\ UNCHANGED <<tz, now, categories, nextCatId, lastRunDate, defs, nextId,
                   txs, runs, nextTxId, budgets,
                   nextBudgetId, runDates>>

\* Variant: the handler swallows the exception and reports zero created.
RespondErrorAsZero(p) ==
    /\ run[p].pc = "thrown"
    /\ response' = [status |-> 200, transactionsCreated |-> <<0>>]
    /\ run' = [run EXCEPT ![p] = IdleRun]
    /\ UNCHANGED <<tz, now, categories, nextCatId, lastRunDate, defs, nextId,
                   txs, runs, nextTxId, budgets,
                   nextBudgetId, runDates>>

\* The catch of the handler: res.status(500).json({success: false, ...})
RespondError(p) ==
    /\ run[p].pc = "thrown"
    /\ response' = [status |-> 500, transactionsCreated |-> Null]
    /\ run' = [run EXCEPT ![p] = IdleRun]
    /\ UNCHANGED <<tz, now, categories, nextCatId, lastRunDate, defs, nextId,
                   txs, runs, nextTxId, budgets,
                   nextBudgetId, runDates>>

Process(p) ==
    \/ StartRun(p)
    \/ ListFail(p)
    \/ ProcessSkip(p)
    \/ CreateTx(p)
    \/ CreateTxFail(p)
    \/ UpdateLastProcessed(p)
    \/ UpdateFail(p)
    \/ ReturnCount(p)
    \/ RespondCount(p)
    \/ RespondError(p)

-----------------------------------------------------------------------------
(* The host clock *)

LastInstant == ParseDate(FirstDay + MaxDays) + 12

\* Twelve hours pass.  The processor reads the clock once, when it starts, so
\* time passing during an invocation is the same as time passing after it.
AdvanceClock ==
    /\ AllIdle
    /\ now + 12 <= LastInstant
    /\ now' = now + 12
    /\ UNCHANGED <<tz, categories, nextCatId, lastRunDate, defs, nextId, txs,
                   run, runs, response, nextTxId, budgets,
                   nextBudgetId, runDates>>

-----------------------------------------------------------------------------
(* Request bodies: a body is a function from the field names it carries *)

Has(body, f) == f \in DOMAIN body

\* body.f where undefined and null are not told apart
Field(body, f) == IF Has(body, f) THEN body[f] ELSE Null

\* v || null, for a nullable integer: 0 is falsy
OrNull(v) == IF v = <<0>> THEN Null ELSE v

\* The row UPDATE ... SET body leaves: the columns named in body are replaced.
SetColumns(row, body) ==
    [c \in DOMAIN row |-> IF Has(body, c) THEN body[c] ELSE row[c]]

\* "Validate frequency-specific fields": TRUE when the request is rejected.
AnchorRejected(body) ==
    \/ /\ Field(body, "frequency") = "weekly"
       /\ \/ Field(body, "dayOfWeek") = Null
          \/ Field(body, "dayOfWeek")[1] < 0
          \/ Field(body, "dayOfWeek")[1] > 6
    \/ /\ Field(body, "frequency") = "monthly"
       /\ \/ Field(body, "dayOfMonth") = Null
          \/ Field(body, "dayOfMonth")[1] < 1
          \/ Field(body, "dayOfMonth")[1] > 31

\* The status of the category check of a create or update by user u:
\* 0 when the check passes.
CategoryStatus(u, body) ==
    IF ~Has(body, "categoryId") THEN 0
    ELSE IF body.categoryId \notin DOMAIN categories THEN 400
    ELSE IF categories[body.categoryId].userId # u
            /\ categories[body.categoryId].userId # 0 THEN 403
    ELSE 0

Reply(status) == [status |-> status, transactionsCreated |-> Null]

\* insertRecurringTransactionSchema.parse: the notNull columns without a
\* default that the handler does not fill in itself must be in the body.
ParseFails(body) ==
    ~({"type", "amount", "description", "categoryId", "frequency", "startDate"}
         \subseteq DOMAIN body)

\* DatabaseStorage.createRecurringTransaction: the row inserted for the
\* parsed body data of user u.
createRecurringTransaction(id, u, data) ==
    [id |-> id,
     userId |-> u,
     type |-> data.type,
     amount |-> data.amount,
     description |-> data.description,
     categoryId |-> data.categoryId,
     frequency |-> data.frequency,
     startDate |-> data.startDate,
     endDate |-> Field(data, "endDate"),
     dayOfMonth |-> OrNull(Field(data, "dayOfMonth")),
     dayOfWeek |-> OrNull(Field(data, "dayOfWeek")),
     lastProcessedDate |-> Null,
     isActive |-> IF Has(data, "isActive") THEN data.isActive ELSE TRUE,
     notes |-> OrNullText(Field(data, "notes"))]

-----------------------------------------------------------------------------
(* The recurring-transaction endpoints, called by logged-in user u *)

\* POST /api/recurring-transactions
CreateRecurring(u, body) ==
    /\ AllIdle
    /\ nextId <= MaxDefs
    /\ IF ParseFails(body)
       THEN /\ response' = Reply(400)
            /\ UNCHANGED <<defs, nextId>>
       ELSE IF CategoryStatus(u, body) # 0
       THEN /\ response' = Reply(CategoryStatus(u, body))
            /\ UNCHANGED <<defs, nextId>>
       ELSE IF AnchorRejected(body)
       THEN /\ response' = Reply(400)
            /\ UNCHANGED <<defs, nextId>>
       ELSE /\ defs' = [id \in DOMAIN defs \cup {nextId} |->
                          IF id = nextId
                          THEN createRecurringTransaction(nextId, u, body)
                          ELSE defs[id]]
            /\ nextId' = nextId + 1
            /\ response' = Reply(201)
    /\ UNCHANGED <<tz, now, categories, nextCatId, lastRunDate, txs, run,
                   runs, nextTxId, budgets,
                   nextBudgetId, runDates>>

\* PUT /api/recurring-transactions/:id
PutRecurring(u, id, body) ==
    /\ IF id \notin DOMAIN defs
       THEN response' = Reply(404) /\ UNCHANGED defs
       ELSE IF defs[id].userId # u
       THEN response' = Reply(403) /\ UNCHANGED defs
       ELSE IF CategoryStatus(u, body) # 0
       THEN response' = Reply(CategoryStatus(u, body)) /\ UNCHANGED defs
       ELSE IF Has(body, "frequency") /\ AnchorRejected(body)
       THEN response' = Reply(400) /\ UNCHANGED defs
       ELSE /\ defs' = [defs EXCEPT ![id] = SetColumns(defs[id], body)]
            /\ response' = Reply(200)
    /\ UNCHANGED <<tz, now, categories, nextCatId, lastRunDate, nextId, txs,
                   run, runs, nextTxId, budgets,
                   nextBudgetId, runDates>>

\* The request arrives while no invocation of the processor is in progress.
UpdateRecurring(u, id, body) == AllIdle /\ PutRecurring(u, id, body)

\* DELETE /api/recurring-transactions/:id
RemoveRecurring(u, id) ==
    /\ IF id \notin DOMAIN defs
       THEN response' = Reply(404) /\ UNCHANGED defs
       ELSE IF defs[id].userId # u
       THEN response' = Reply(403) /\ UNCHANGED defs
       ELSE /\ defs' = [i \in DOMAIN defs \ {id} |-> defs[i]]
            /\ response' = Reply(204)
    /\ UNCHANGED <<tz, now, categories, nextCatId, lastRunDate, nextId, txs,
                   run, runs, nextTxId, budgets,
                   nextBudgetId, runDates>>

\* The request arrives while no invocation of the processor is in progress.
DeleteRecurring(u, id) == AllIdle /\ RemoveRecurring(u, id)

-----------------------------------------------------------------------------
(* The category endpoints, called by logged-in user u *)

\* The rows of the users table: the system user and the registered users.
UserIds == {SystemUser} \cup Users

\* Rows holding a foreign key to category id.
References(id) ==
    \/ \E d \in DOMAIN defs : defs[d].categoryId = id
    \/ \E k \in DOMAIN txs : txs[k].categoryId = id
    \/ \E b \in DOMAIN budgets : budgets[b].categoryId = id

\* POST /api/categories; valid is whether insertCategorySchema.parse accepts
\* the body.  The owner is the session's user whatever the body says.
CreateCategory(u, valid) ==
    /\ AllIdle
    /\ nextCatId <= Cardinality(CatIds) + MaxNewCats
    /\ IF ~valid
       THEN /\ response' = Reply(400)
            /\ UNCHANGED <<categories, nextCatId>>
       ELSE /\ categories' = [c \in DOMAIN categories \cup {nextCatId} |->
                                IF c = nextCatId THEN [userId |-> u]
                                ELSE categories[c]]
            /\ nextCatId' = nextCatId + 1
            /\ response' = Reply(201)
    /\ UNCHANGED <<tz, now, defs, nextId, txs, run, runs, lastRunDate,
                   nextTxId, budgets,
                   nextBudgetId, runDates>>

\* PUT /api/categories/:id; the body goes to UPDATE ... SET as it came.  A
\* userId that is no row of users violates the foreign key: 500.
UpdateCategory(u, id, body) ==
    /\ AllIdle
    /\ IF id \notin DOMAIN categories
       THEN response' = Reply(404) /\ UNCHANGED categories
       ELSE IF categories[id].userId # u
       THEN response' = Reply(403) /\ UNCHANGED categories
       ELSE IF Has(body, "userId") /\ body.userId \notin UserIds
       THEN response' = Reply(500) /\ UNCHANGED categories
       ELSE /\ categories' = [categories EXCEPT ![id] = SetColumns(@, body)]
            /\ response' = Reply(200)
    /\ UNCHANGED <<tz, now, nextCatId, defs, nextId, txs, run, runs,
                   lastRunDate, nextTxId, budgets,
                   nextBudgetId, runDates>>

\* DELETE /api/categories/:id.  The DELETE of a category that a definition or
\* a transaction references violates their foreign key and throws; the
\* handler does not catch it, so nothing is deleted and no answer is sent.
DeleteCategory(u, id) ==
    /\ AllIdle
    /\ IF id \notin DOMAIN categories
       THEN response' = Reply(404) /\ UNCHANGED categories
       ELSE IF categories[id].userId # u
       THEN response' = Reply(403) /\ UNCHANGED categories
       ELSE IF References(id)
       THEN UNCHANGED <<categories, response>>
       ELSE /\ categories' = [c \in DOMAIN categories \ {id} |-> categories[c]]
            /\ response' = Reply(204)
    /\ UNCHANGED <<tz, now, nextCatId, defs, nextId, txs, run, runs,
                   lastRunDate, nextTxId, budgets,
                   nextBudgetId, runDates>>

-----------------------------------------------------------------------------
(* GET /api/recurring-transactions/:id and the transaction and budget
   endpoints, called by logged-in user u *)

\* GET /api/recurring-transactions/:id
GetRecurring(u, id) ==
    /\ response' = IF id \notin DOMAIN defs THEN Reply(404)
                   ELSE IF defs[id].userId # u THEN Reply(403)
                   ELSE Reply(200)
    /\ UNCHANGED <<tz, now, categories, nextCatId, lastRunDate, defs, nextId,
                   txs, run, runs, nextTxId, budgets, nextBudgetId, runDates>>

\* The positions of the rows of transactions with the given id.
TxAt(id) == {k \in DOMAIN txs : txs[k].id = id}

\* storage.getTransactionById, for an id that has a row
getTransactionById(id) == txs[CHOOSE k \in TxAt(id) : TRUE]

\* GET /api/transactions/:id
GetTransaction(u, id) ==
    /\ response' = IF TxAt(id) = {} THEN Reply(404)
                   ELSE IF getTransactionById(id).userId # u THEN Reply(403)
                   ELSE Reply(200)
    /\ UNCHANGED <<tz, now, categories, nextCatId, lastRunDate, defs, nextId,
                   txs, run, runs, nextTxId, budgets, nextBudgetId, runDates>>

\* insertTransactionSchema.parse: the notNull columns the handler does not
\* fill in itself must be in the body.
TxParseFails(body) ==
    ~({"type", "amount", "description", "date", "categoryId"}
         \subseteq DOMAIN body)

\* POST /api/transactions.  The owner is the session's user; src and run are
\* 0 for a row no definition produced.
CreateTransaction(u, body) ==
    /\ nextTxId <= MaxTxs
    /\ IF TxParseFails(body)
       THEN /\ response' = Reply(400)
            /\ UNCHANGED <<txs, nextTxId>>
       ELSE IF CategoryStatus(u, body) # 0
       THEN /\ response' = Reply(CategoryStatus(u, body))
            /\ UNCHANGED <<txs, nextTxId>>
       ELSE /\ txs' = Append(txs, [id |-> nextTxId] @@ createTransaction(
                        [userId |-> u, type |-> body.type,
                         amount |-> body.amount,
                         description |-> body.description,
                         date |-> body.date, categoryId |-> body.categoryId,
                         notes |-> Field(body, "notes"),
                         src |-> 0, run |-> 0]))
            /\ nextTxId' = nextTxId + 1
            /\ response' = Reply(201)
    /\ UNCHANGED <<tz, now, categories, nextCatId, lastRunDate, defs, nextId,
                   run, runs, budgets, nextBudgetId, runDates>>

\* Variant: the handler does not compare the row's userId with the session's.
UpdateTransactionUnchecked(u, id, body) ==
    /\ IF TxAt(id) = {}
       THEN response' = Reply(404) /\ UNCHANGED txs
       ELSE IF CategoryStatus(u, body) # 0
       THEN response' = Reply(CategoryStatus(u, body)) /\ UNCHANGED txs
       ELSE IF Has(body, "userId") /\ body.userId \notin UserIds
       THEN response' = Reply(500) /\ UNCHANGED txs
       ELSE /\ txs' = [k \in DOMAIN txs |->
                         IF txs[k].id = id THEN SetColumns(txs[k], body)
                         ELSE txs[k]]
            /\ response' = Reply(200)
    /\ UNCHANGED <<tz, now, categories, nextCatId, lastRunDate, defs, nextId,
                   run, runs, nextTxId, budgets, nextBudgetId, runDates>>

\* PUT /api/transactions/:id; the body goes to UPDATE ... SET as it came.  A
\* userId that is no row of users violates the foreign key: 500.
UpdateTransaction(u, id, body) ==
    /\ IF TxAt(id) = {}
       THEN response' = Reply(404) /\ UNCHANGED txs
       ELSE IF getTransactionById(id).userId # u
       THEN response' = Reply(403) /\ UNCHANGED txs
       ELSE IF CategoryStatus(u, body) # 0
       THEN response' = Reply(CategoryStatus(u, body)) /\ UNCHANGED txs
       ELSE IF Has(body, "userId") /\ body.userId \notin UserIds
       THEN response' = Reply(500) /\ UNCHANGED txs
       ELSE /\ txs' = [k \in DOMAIN txs |->
                         IF txs[k].id = id THEN SetColumns(txs[k], body)
                         ELSE txs[k]]
            /\ response' = Reply(200)
    /\ UNCHANGED <<tz, now, categories, nextCatId, lastRunDate, defs, nextId,
                   run, runs, nextTxId, budgets, nextBudgetId, runDates>>

\* DELETE /api/transactions/:id
DeleteTransaction(u, id) ==
    /\ IF TxAt(id) = {}
       THEN response' = Reply(404) /\ UNCHANGED txs
       ELSE IF getTransactionById(id).userId # u
       THEN response' = Reply(403) /\ UNCHANGED txs
       ELSE /\ txs' = SelectSeq(txs, LAMBDA t : t.id # id)
            /\ response' = Reply(204)
    /\ UNCHANGED <<tz, now, categories, nextCatId, lastRunDate, defs, nextId,
                   run, runs, nextTxId, budgets, nextBudgetId, runDates>>

\* insertBudgetSchema.parse
BudgetParseFails(body) ==
    ~({"categoryId", "amount", "period", "startDate", "endDate"}
         \subseteq DOMAIN body)

\* POST /api/budgets.  The owner is the session's user.
CreateBudget(u, body) ==
    /\ nextBudgetId <= MaxBudgets
    /\ IF BudgetParseFails(body)
       THEN /\ response' = Reply(400)
            /\ UNCHANGED <<budgets, nextBudgetId, runDates>>
       ELSE IF CategoryStatus(u, body) # 0
       THEN /\ response' = Reply(CategoryStatus(u, body))
            /\ UNCHANGED <<budgets, nextBudgetId, runDates>>
       ELSE /\ budgets' = [b \in DOMAIN budgets \cup {nextBudgetId} |->
                             IF b = nextBudgetId
                             THEN [id |-> nextBudgetId, userId |-> u,
                                   categoryId |-> body.categoryId,
                                   amount |-> body.amount,
                                   period |-> body.period,
                                   startDate |-> body.startDate,
                                   endDate |-> body.endDate]
                             ELSE budgets[b]]
            /\ nextBudgetId' = nextBudgetId + 1
            /\ response' = Reply(201)
    /\ UNCHANGED <<tz, now, categories, nextCatId, lastRunDate, defs, nextId,
                   txs, run, runs, nextTxId, runDates>>

\* PUT /api/budgets/:id; the body goes to UPDATE ... SET as it came.
UpdateBudget(u, id, body) ==
    /\ IF id \notin DOMAIN budgets
       THEN response' = Reply(404) /\ UNCHANGED budgets
       ELSE IF budgets[id].userId # u
       THEN response' = Reply(403) /\ UNCHANGED budgets
       ELSE IF CategoryStatus(u, body) # 0
       THEN response' = Reply(CategoryStatus(u, body)) /\ UNCHANGED budgets
       ELSE IF Has(body, "userId") /\ body.userId \notin UserIds
       THEN response' = Reply(500) /\ UNCHANGED budgets
       ELSE /\ budgets' = [budgets EXCEPT ![id] = SetColumns(@, body)]
            /\ response' = Reply(200)
    /\ UNCHANGED <<tz, now, categories, nextCatId, lastRunDate, defs, nextId,
                   txs, run, runs, nextTxId, nextBudgetId, runDates>>

\* DELETE /api/budgets/:id
DeleteBudget(u, id) ==
    /\ IF id \notin DOMAIN budgets
       THEN response' = Reply(404) /\ UNCHANGED budgets
       ELSE IF budgets[id].userId # u
       THEN response' = Reply(403) /\ UNCHANGED budgets
       ELSE /\ budgets' = [b \in DOMAIN budgets \ {id} |-> budgets[b]]
            /\ response' = Reply(204)
    /\ UNCHANGED <<tz, now, categories, nextCatId, lastRunDate, defs, nextId,
                   txs, run, runs, nextTxId, nextBudgetId, runDates>>

-----------------------------------------------------------------------------
(* The requests explored *)

\* The fields every well-formed create body carries besides its schedule.
Payload == [type |-> "expense", amount |-> 50, description |-> "rent"]

\* Bodies of POST /api/recurring-transactions.
CreateBodies ==
    {body @@ Payload : body \in
       {[categoryId |-> 2, frequency |-> "daily", startDate |-> FirstDay],
        [categoryId |-> 2, frequency |-> "daily", startDate |-> FirstDay,
         endDate |-> <<FirstDay + 1>>, lastProcessedDate |-> <<FirstDay>>],
        [categoryId |-> 2, frequency |-> "weekly", startDate |-> LongAgo,
         dayOfWeek |-> <<1>>],
        [categoryId |-> 2, frequency |-> "weekly", startDate |-> FirstDay],
        [categoryId |-> 3, frequency |-> "daily", startDate |-> FirstDay + 1,
         isActive |-> FALSE, notes |-> <<"">>]}}
    \cup {[categoryId |-> 2, frequency |-> "daily", startDate |-> FirstDay]}

\* Bodies of PUT /api/recurring-transactions/:id.
UpdateBodies ==
    {[isActive |-> FALSE],
     [isActive |-> TRUE],
     [lastProcessedDate |-> Null],
     [lastProcessedDate |-> <<FirstDay + 1>>],
     [frequency |-> "weekly"],
     [endDate |-> <<FirstDay>>]}

-----------------------------------------------------------------------------
(* The system: requests and processor invocations, one at a time *)

\* The seeded category (owned by the system user) and one per user.
SeededCategories ==
    [c \in CatIds |-> [userId |-> IF c \in Users THEN c ELSE SystemUser]]

Init ==
    /\ tz \in HostOffsets
    /\ now = ParseDate(FirstDay) + 12
    /\ categories = SeededCategories
    /\ defs = <<>>
    /\ nextId = 1
    /\ txs = <<>>
    /\ run = [p \in ProcIds |-> IdleRun]
    /\ runs = 0
    /\ lastRunDate = Null
    /\ runDates = {}
    /\ nextCatId = Cardinality(CatIds) + 1
    /\ nextTxId = 1
    /\ budgets = <<>>
    /\ nextBudgetId = 1
    /\ response = Reply(0)

Next ==
    \/ \E u \in Users, body \in CreateBodies : CreateRecurring(u, body)
    \/ \E u \in Users, id \in DefIds, body \in UpdateBodies :
          UpdateRecurring(u, id, body)
    \/ \E u \in Users, id \in DefIds : DeleteRecurring(u, id)
    \/ \E p \in ProcIds : Process(p)
    \/ AdvanceClock

Spec == Init /\ [][Next]_vars

-----------------------------------------------------------------------------
(* The endpoints alone: definitions and categories, no processor run *)

NewCatId == Cardinality(CatIds) + 1
AllCatIds == 1 .. (Cardinality(CatIds) + MaxNewCats)

\* Bodies of POST /api/recurring-transactions: anchors at the edges of their
\* ranges, missing or out of range; categories of either user, of the system
\* user, and one that may not exist.
ApiCreateBodies ==
    {body @@ Payload @@ [startDate |-> FirstDay] : body \in
       {[categoryId |-> 2, frequency |-> "weekly", dayOfWeek |-> <<0>>],
        [categoryId |-> 2, frequency |-> "weekly", dayOfWeek |-> <<7>>],
        [categoryId |-> 2, frequency |-> "monthly", dayOfMonth |-> <<31>>],
        [categoryId |-> 2, frequency |-> "monthly"],
        [categoryId |-> 3, frequency |-> "daily"],
        [categoryId |-> 1, frequency |-> "daily"],
        [categoryId |-> NewCatId, frequency |-> "daily"]}}

\* Bodies of PUT /api/recurring-transactions/:id.
ApiUpdateBodies ==
    {[dayOfWeek |-> Null],
     [frequency |-> "weekly"],
     [frequency |-> "monthly", dayOfMonth |-> <<15>>],
     [categoryId |-> 3],
     [categoryId |-> NewCatId],
     [userId |-> 3]}

\* Bodies of PUT /api/categories/:id: a rename, and three new owners.
CategoryBodies ==
    {[name |-> "food"]} \cup {[userId |-> v] : v \in {0, 2, 3}}

\* The endpoints read neither the clock nor the host's offset.
InitApi ==
    /\ tz = 0
    /\ now = ParseDate(FirstDay) + 12
    /\ categories = SeededCategories
    /\ defs = <<>>
    /\ nextId = 1
    /\ txs = <<>>
    /\ run = [p \in ProcIds |-> IdleRun]
    /\ runs = 0
    /\ lastRunDate = Null
    /\ runDates = {}
    /\ nextCatId = NewCatId
    /\ nextTxId = 1
    /\ budgets = <<>>
    /\ nextBudgetId = 1
    /\ response = Reply(0)

NextApi ==
    \/ \E u \in Users, body \in ApiCreateBodies : CreateRecurring(u, body)
    \/ \E u \in Users, id \in DefIds, body \in ApiUpdateBodies :
          UpdateRecurring(u, id, body)
    \/ \E u \in Users, id \in DefIds : DeleteRecurring(u, id)
    \/ \E u \in Users, valid \in BOOLEAN : CreateCategory(u, valid)
    \/ \E u \in Users, id \in AllCatIds, body \in CategoryBodies :
          UpdateCategory(u, id, body)
    \/ \E u \in Users, id \in AllCatIds : DeleteCategory(u, id)

SpecApi == InitApi /\ [][NextApi]_vars

-----------------------------------------------------------------------------
(* The processor alone, started on any store the endpoints can leave *)

Nullable(S) == {Null} \cup {<<v>> : v \in S}

\* Frequencies with their anchors; "quarterly" is named by the schema's comment
\* and has no case in the processor's switch.
AnchorShapes ==
    {[frequency |-> f, dayOfWeek |-> Null, dayOfMonth |-> Null] :
        f \in {"daily", "yearly", "quarterly"}}
    \cup {[frequency |-> "weekly", dayOfWeek |-> w, dayOfMonth |-> Null] :
            w \in Nullable(0 .. 6)}
    \cup {[frequency |-> "monthly", dayOfWeek |-> Null, dayOfMonth |-> m] :
            m \in Nullable({7, 8, 31})}

\* A stored definition.  Its payload is fixed by its owner and its id: the
\* notes of definition 1 are the empty string, as a PUT can leave them.
Row(id, u, shape, start, end, last, active) ==
    [id |-> id, userId |-> u, type |-> "expense", amount |-> 10 * u,
     description |-> "rent", categoryId |-> u,
     notes |-> IF id = 1 THEN <<"">> ELSE <<"flat">>,
     frequency |-> shape.frequency,
     startDate |-> start, endDate |-> end,
     dayOfMonth |-> shape.dayOfMonth, dayOfWeek |-> shape.dayOfWeek,
     lastProcessedDate |-> last, isActive |-> active]

\* One definition, of any shape, with dates around the first day.
WideRows ==
    {Row(1, 2, shape, start, end, last, active) :
        shape \in AnchorShapes,
        start \in {LongAgo, FirstDay, FirstDay + 1},
        end \in Nullable({FirstDay, FirstDay + 1}),
        last \in Nullable({FirstDay - 1, FirstDay}),
        active \in BOOLEAN}

\* Definition id of a store of several: daily or weekly on Monday, long
\* started, never processed, owned by one user or the other.
NarrowRows(id) ==
    {Row(id, 2 + (id % 2), shape, LongAgo, Null, Null, active) :
        shape \in {s \in AnchorShapes :
                     \/ s.frequency = "daily"
                     \/ s.frequency = "weekly" /\ s.dayOfWeek = <<1>>},
        active \in BOOLEAN}

InitProc ==
    /\ tz \in HostOffsets
    /\ now = ParseDate(FirstDay) + 12
    /\ categories = SeededCategories
    /\ \/ \E row \in WideRows : defs = [id \in {1} |-> row]
       \/ defs \in [{1, 2} -> NarrowRows(1) \cup NarrowRows(2)]
          /\ \A id \in {1, 2} : defs[id].id = id
    /\ nextId = Cardinality(DOMAIN defs) + 1
    /\ txs = <<>>
    /\ run = [p \in ProcIds |-> IdleRun]
    /\ runs = 0
    /\ lastRunDate = Null
    /\ runDates = {}
    /\ nextCatId = Cardinality(CatIds) + 1
    /\ nextTxId = 1
    /\ budgets = <<>>
    /\ nextBudgetId = 1
    /\ response = Reply(0)

NextProc ==
    \/ \E p \in ProcIds : Process(p)
    \/ AdvanceClock

\* One step of the for-loop, or the return that follows it.
LoopStep(p) ==
    \/ ProcessSkip(p)
    \/ CreateTx(p)
    \/ CreateTxFail(p)
    \/ UpdateLastProcessed(p)
    \/ UpdateFail(p)
    \/ ReturnCount(p)

SpecProc == InitProc /\ [][NextProc]_vars

\* Every await of the loop settles, by resolving or by rejecting, and the
\* event loop then resumes the invocation.
SpecProcLive == SpecProc /\ WF_vars(\E p \in ProcIds : LoopStep(p))

-----------------------------------------------------------------------------
(* Overlapping invocations on one date: two requests to the process endpoint
   in flight, their awaits interleaved in any way *)

Overlap(p) ==
    \/ BeginRun(p)
    \/ BeginListFail(p)
    \/ ProcessSkip(p)
    \/ CreateTx(p)
    \/ CreateTxFail(p)
    \/ UpdateLastProcessed(p)
    \/ UpdateFail(p)
    \/ ReturnCount(p)
    \/ RespondCount(p)
    \/ RespondError(p)

InitRace ==
    /\ tz \in HostOffsets
    /\ now = ParseDate(FirstDay) + 12
    /\ categories = SeededCategories
    /\ \/ \E row \in NarrowRows(1) : defs = [id \in {1} |-> row]
       \/ defs \in [{1, 2} -> NarrowRows(1) \cup NarrowRows(2)]
          /\ \A id \in {1, 2} : defs[id].id = id
    /\ nextId = Cardinality(DOMAIN defs) + 1
    /\ txs = <<>>
    /\ run = [p \in RaceIds |-> IdleRun]
    /\ runs = 0
    /\ lastRunDate = Null
    /\ runDates = {}
    /\ nextCatId = Cardinality(CatIds) + 1
    /\ nextTxId = 1
    /\ budgets = <<>>
    /\ nextBudgetId = 1
    /\ response = Reply(0)

NextRace == \E p \in RaceIds : Overlap(p)

SpecRace == InitRace /\ [][NextRace]_vars

-----------------------------------------------------------------------------
(* One invocation at a time, with requests of the definitions' owners arriving
   between its awaits *)

\* Body of PUT /api/recurring-transactions/:id: a deactivation.
MixBodies == {[isActive |-> FALSE]}

InitMix ==
    /\ tz \in HostOffsets
    /\ now = ParseDate(FirstDay) + 12
    /\ categories = SeededCategories
    /\ \/ \E row \in NarrowRows(1) : defs = [id \in {1} |-> row]
       \/ defs \in [{1, 2} -> NarrowRows(1) \cup NarrowRows(2)]
          /\ \A id \in {1, 2} : defs[id].id = id
    /\ nextId = Cardinality(DOMAIN defs) + 1
    /\ txs = <<>>
    /\ run = [p \in ProcIds |-> IdleRun]
    /\ runs = 0
    /\ lastRunDate = Null
    /\ runDates = {}
    /\ nextCatId = Cardinality(CatIds) + 1
    /\ nextTxId = 1
    /\ budgets = <<>>
    /\ nextBudgetId = 1
    /\ response = Reply(0)

NextMix ==
    \/ \E p \in ProcIds : Overlap(p)
    \/ \E u \in Users, id \in {1, 2}, body \in MixBodies :
          PutRecurring(u, id, body)
    \/ \E u \in Users, id \in {1, 2} : RemoveRecurring(u, id)

SpecMix == InitMix /\ [][NextMix]_vars

-----------------------------------------------------------------------------
(* The endpoints of the four kinds of record, called by two users *)

\* Ids a by-id request may name: those of the rows ever inserted.
OwnTxIds == 1 .. MaxTxs
OwnBudgetIds == 1 .. MaxBudgets

\* Bodies of the PUT requests: a new owner and, for a transaction, an edit.
OwnBodies == {[userId |-> 3]}
OwnTxEdits == {[amount |-> 75]} \cup OwnBodies

\* Bodies of the POST requests, with the category of one user or the other.
OwnTxBodies ==
    {[type |-> "expense", amount |-> 50, description |-> "rent",
      date |-> FirstDay, categoryId |-> c] : c \in Users}

OwnBudgetBodies ==
    {[categoryId |-> c, amount |-> 500, period |-> "monthly",
      startDate |-> FirstDay, endDate |-> FirstDay + 1] : c \in Users}

OwnDefBodies ==
    {[categoryId |-> c, frequency |-> "daily", startDate |-> FirstDay]
        @@ Payload : c \in Users}

\* The store of a fresh deployment: the seeded categories and no other row.
InitOwn ==
    /\ tz = 0
    /\ now = ParseDate(FirstDay) + 12
    /\ categories = SeededCategories
    /\ defs = <<>>
    /\ nextId = 1
    /\ txs = <<>>
    /\ nextTxId = 1
    /\ budgets = <<>>
    /\ nextBudgetId = 1
    /\ run = [p \in ProcIds |-> IdleRun]
    /\ runs = 0
    /\ lastRunDate = Null
    /\ runDates = {}
    /\ nextCatId = Cardinality(CatIds) + 1
    /\ response = Reply(0)

NextOwn ==
    \/ \E u \in Users, body \in OwnTxBodies : CreateTransaction(u, body)
    \/ \E u \in Users, id \in OwnTxIds : GetTransaction(u, id)
    \/ \E u \in Users, id \in OwnTxIds, body \in OwnTxEdits :
          UpdateTransaction(u, id, body)
    \/ \E u \in Users, id \in OwnTxIds : DeleteTransaction(u, id)
    \/ \E u \in Users, body \in OwnBudgetBodies : CreateBudget(u, body)
    \/ \E u \in Users, id \in OwnBudgetIds, body \in OwnBodies :
          UpdateBudget(u, id, body)
    \/ \E u \in Users, id \in OwnBudgetIds : DeleteBudget(u, id)
    \/ \E u \in Users : CreateCategory(u, TRUE)
    \/ \E u \in Users, id \in AllCatIds, body \in OwnBodies :
          UpdateCategory(u, id, body)
    \/ \E u \in Users, id \in AllCatIds : DeleteCategory(u, id)
    \/ \E u \in Users, body \in OwnDefBodies : CreateRecurring(u, body)
    \/ \E u \in Users, id \in DefIds : GetRecurring(u, id)
    \/ \E u \in Users, id \in DefIds, body \in OwnBodies :
          UpdateRecurring(u, id, body)
    \/ \E u \in Users, id \in DefIds : DeleteRecurring(u, id)

SpecOwn == InitOwn /\ [][NextOwn]_vars

-----------------------------------------------------------------------------
(* The requests by id alone, on a store in which user 2 has created one
   record of each kind *)

\* The store after user 2's POST of a transaction, a budget and a recurring
\* definition, each with user 2's category.
InitById ==
    /\ tz = 0
    /\ now = ParseDate(FirstDay) + 12
    /\ categories = SeededCategories
    /\ defs = [id \in {1} |->
                 createRecurringTransaction(1, 2,
                    [categoryId |-> 2, frequency |-> "daily",
                     startDate |-> FirstDay] @@ Payload)]
    /\ nextId = 2
    /\ txs = <<[id |-> 1] @@ createTransaction(
                 [userId |-> 2, type |-> "expense", amount |-> 50,
                  description |-> "rent", date |-> FirstDay,
                  categoryId |-> 2, notes |-> Null, src |-> 0, run |-> 0])>>
    /\ nextTxId = 2
    /\ budgets = [b \in {1} |->
                    [id |-> 1, userId |-> 2, categoryId |-> 2, amount |-> 500,
                     period |-> "monthly", startDate |-> FirstDay,
                     endDate |-> FirstDay + 1]]
    /\ nextBudgetId = 2
    /\ run = [p \in ProcIds |-> IdleRun]
    /\ runs = 0
    /\ lastRunDate = Null
    /\ runDates = {}
    /\ nextCatId = Cardinality(CatIds) + 1
    /\ response = Reply(201)

NextById ==
    \/ \E u \in Users, id \in OwnTxIds : GetTransaction(u, id)
    \/ \E u \in Users, id \in OwnTxIds, body \in OwnTxEdits :
          UpdateTransaction(u, id, body)
    \/ \E u \in Users, id \in OwnTxIds : DeleteTransaction(u, id)
    \/ \E u \in Users, id \in OwnBudgetIds, body \in OwnBodies :
          UpdateBudget(u, id, body)
    \/ \E u \in Users, id \in OwnBudgetIds : DeleteBudget(u, id)
    \/ \E u \in Users, id \in AllCatIds, body \in OwnBodies :
          UpdateCategory(u, id, body)
    \/ \E u \in Users, id \in AllCatIds : DeleteCategory(u, id)
    \/ \E u \in Users, id \in DefIds : GetRecurring(u, id)
    \/ \E u \in Users, id \in DefIds, body \in OwnBodies :
          UpdateRecurring(u, id, body)
    \/ \E u \in Users, id \in DefIds : DeleteRecurring(u, id)

SpecById == InitById /\ [][NextById]_vars

-----------------------------------------------------------------------------
(* The processor run once or twice at one instant of a stretch of the calendar:
   the turn of February in a leap year and in a common year, and the days
   around an anniversary *)

CalendarDays ==
    (DaysFromCivil(2024, 1, 30) .. DaysFromCivil(2024, 3, 2))
    \cup (DaysFromCivil(2023, 2, 27) .. DaysFromCivil(2023, 3, 2))
    \cup (DaysFromCivil(2031, 3, 13) .. DaysFromCivil(2031, 3, 17))

\* Hours of the day (UTC) at which the processor is invoked.
CalendarHours == {0, 12, 23}

Anniversary == DaysFromCivil(2020, 3, 15)
LeapDay     == DaysFromCivil(2020, 2, 29)

\* A monthly definition on a day of the month, or a yearly one: long started,
\* open-ended, never processed, active.
MonthlyRow(id, m) ==
    Row(id, 2, [frequency |-> "monthly", dayOfWeek |-> Null, dayOfMonth |-> m],
        LeapDay, Null, Null, TRUE)

YearlyRow(id, start) ==
    Row(id, 2, [frequency |-> "yearly", dayOfWeek |-> Null, dayOfMonth |-> Null],
        start, Null, Null, TRUE)

CalendarRows ==
    {MonthlyRow(1, m) : m \in Nullable({1, 28, 29, 30, 31})}
    \cup {YearlyRow(1, start) : start \in {Anniversary, LeapDay}}

InitCal ==
    /\ tz \in HostOffsets
    /\ \E d \in CalendarDays, h \in CalendarHours : now = ParseDate(d) + h
    /\ categories = SeededCategories
    /\ \/ \E row \in CalendarRows : defs = [id \in {1} |-> row]
       \/ defs = [id \in {1, 2} |->
                    IF id = 1 THEN MonthlyRow(1, <<29>>) ELSE MonthlyRow(2, <<31>>)]
    /\ nextId = Cardinality(DOMAIN defs) + 1
    /\ txs = <<>>
    /\ run = [p \in ProcIds |-> IdleRun]
    /\ runs = 0
    /\ lastRunDate = Null
    /\ runDates = {}
    /\ nextCatId = Cardinality(CatIds) + 1
    /\ nextTxId = 1
    /\ budgets = <<>>
    /\ nextBudgetId = 1
    /\ response = Reply(0)

NextCal == \E p \in ProcIds : Process(p)

SpecCal == InitCal /\ [][NextCal]_vars

-----------------------------------------------------------------------------
(* Vocabulary of the properties *)

\* The host's calendar date on which invocation p runs.
RunDate(p) == LocalDay(run[p].today, tz)

\* The definitions invocation p listed, as it read them.
Listed(p) == {run[p].allRecurringTxs[k] : k \in DOMAIN run[p].allRecurringTxs}

\* The transactions the current invocation has created for definition id.
EmittedInRun(id) == {k \in DOMAIN txs : txs[k].run = runs /\ txs[k].src = id}

\* Weekday of calendar date d, 0 = Sunday.
Weekday(d) == (d + 4) % 7

\* Month (1..12) and day of the month of calendar date d.
MonthOf(d) == CivilFromDays(d)[2]
DayOfMonth(d) == CivilFromDays(d)[3]

\* The three guards of the loop let definition rt through in invocation p,
\* and p met no failure on it.
PassedGuards(p, rt) ==
    /\ ~AlreadyProcessed(rt, run[p].today, tz)
    /\ ~EndDatePassed(rt, run[p].today)
    /\ ~StartDateInFuture(rt, run[p].today)
    /\ rt.id \notin run[p].errors

\* The evaluator of the specification, on calendar dates alone: the end-date
\* and start-date guards and the frequency rule for definition rt on date d.
EligibleOn(rt, d) ==
    /\ rt.endDate = Null \/ rt.endDate[1] >= d
    /\ rt.startDate <= d
    /\ CASE rt.frequency = "daily"   -> TRUE
         [] rt.frequency = "weekly"  ->
               rt.dayOfWeek # Null /\ rt.dayOfWeek[1] = Weekday(d)
         [] rt.frequency = "monthly" ->
               rt.dayOfMonth # Null /\ rt.dayOfMonth[1] = CivilFromDays(d)[3]
         [] rt.frequency = "yearly"  ->
               /\ CivilFromDays(rt.startDate)[2] = CivilFromDays(d)[2]
               /\ CivilFromDays(rt.startDate)[3] = CivilFromDays(d)[3]
         [] OTHER -> FALSE

-----------------------------------------------------------------------------
(* C1: once a run on date D has created a transaction for a definition and
   set its lastProcessedDate to D, a later run on D, reading that
   lastProcessedDate, creates no transaction for the definition and does
   not count it. *)
C1_SameDateRunSkips ==
    [][\A p \in ProcIds :
          (/\ InLoopBody(p)
           /\ CurrentRt(p).lastProcessedDate = <<RunDate(p)>>
           /\ \E k \in DOMAIN txs :
                 /\ txs[k].src = CurrentRt(p).id
                 /\ txs[k].date = RunDate(p)
                 /\ txs[k].run < runs)
          => /\ txs' = txs
             /\ run'[p].transactionsCreated = run[p].transactionsCreated]_vars

(* C2: when a run on date D returns without any failure, every active
   definition eligible on D whose lastProcessedDate was not D has exactly one
   transaction of that run, dated D, and its lastProcessedDate is D. *)
C2_EligibleEmitsOnceDatedD ==
    \A p \in ProcIds :
       (run[p].pc = "returned" /\ run[p].errors = {}) =>
          \A id \in ActiveIds :
             (/\ EligibleOn(defs[id], RunDate(p))
              /\ \A rt \in Listed(p) :
                    rt.id = id => rt.lastProcessedDate # <<RunDate(p)>>)
             => /\ Cardinality(EmittedInRun(id)) = 1
                /\ \A k \in EmittedInRun(id) : txs[k].date = RunDate(p)
                /\ defs[id].lastProcessedDate = <<RunDate(p)>>

(* C3: no definition is materialized twice for the same calendar date: the
   transactions table never holds two emitted rows of one definition with
   the same date. *)
C3_AtMostOncePerDate ==
    \A i, j \in DOMAIN txs :
       (txs[i].src = txs[j].src /\ txs[i].date = txs[j].date) => i = j

(* C4: a failure of createTransaction or of the lastProcessedDate update for
   one definition never makes the invocation throw, and when the invocation
   returns every active definition was listed and every listed definition
   the loop decided to process, other than the failed ones, has its
   transaction and its lastProcessedDate written. *)
C4_FailureIsolation ==
    \A p \in ProcIds :
       /\ run[p].pc = "thrown" => run[p].errors = {}
       /\ run[p].pc = "returned" =>
             /\ \A id \in ActiveIds : \E rt \in Listed(p) : rt.id = id
             /\ \A rt \in Listed(p) :
                   (shouldProcess(rt, run[p].today, tz)
                      /\ rt.id \notin run[p].errors)
                   => /\ EmittedInRun(rt.id) # {}
                      /\ defs[rt.id].lastProcessedDate
                            = <<formattedDate(run[p].today)>>

\* A run returned in which one definition failed and a later one was
\* materialized.
C4_Witness ==
    \E p \in ProcIds :
       /\ run[p].pc = "returned"
       /\ \E k1, k2 \in DOMAIN run[p].allRecurringTxs :
             /\ k1 < k2
             /\ run[p].allRecurringTxs[k1].id \in run[p].errors
             /\ run[p].allRecurringTxs[k2].id \notin run[p].errors
             /\ EmittedInRun(run[p].allRecurringTxs[k2].id) # {}

(* C5: the value processRecurringTransactions returns equals the number of
   transactions the invocation created. *)
C5_CountEqualsCreated ==
    \A p \in ProcIds :
       run[p].pc = "returned" =>
          run[p].transactionsCreated
             = Cardinality({k \in DOMAIN txs : txs[k].run = runs})

(* C6: when listing the active definitions fails, the invocation throws, the
   endpoint answers 500 without a count, and neither the step that fails nor
   the answer creates a transaction or changes any definition. *)
C6_ListFailureIsFatal ==
    [][\A p \in ProcIds :
          /\ run'[p].pc = "thrown" => (defs' = defs /\ txs' = txs)
          /\ run[p].pc = "thrown" =>
                /\ defs' = defs /\ txs' = txs
                /\ run'[p] # run[p] =>
                      /\ run'[p].pc = "idle"
                      /\ response' = [status |-> 500,
                                      transactionsCreated |-> Null]]_vars

\* The endpoint has answered 500 to an invocation whose listing failed, on a
\* store holding a definition due that day.
C6_Witness ==
    /\ response.status = 500
    /\ runs > 0
    /\ \E id \in ActiveIds : shouldProcess(defs[id], SetHoursZero(now, tz), tz)

(* C7: no step of the processor creates a transaction for a definition that
   is inactive, or changes its lastProcessedDate. *)
C7_InactiveNeverMaterialized ==
    [][\A id \in DOMAIN defs :
          (~defs[id].isActive /\ run' # run) =>
             /\ id \in DOMAIN defs'
             /\ defs'[id].lastProcessedDate = defs[id].lastProcessedDate
             /\ \A k \in DOMAIN txs' :
                   txs'[k].src = id => (k \in DOMAIN txs /\ txs[k] = txs'[k])]_vars

\* A run returned on a date on which an inactive definition passes every
\* other test of the loop.
C7_Witness ==
    \E p \in ProcIds, id \in DOMAIN defs :
       /\ run[p].pc = "returned"
       /\ ~defs[id].isActive
       /\ shouldProcess(defs[id], run[p].today, tz)

(* C8: when a run on date D returns without failure, a listed definition
   whose endDate is D and whose other guards and frequency rule pass has
   been emitted, and one whose endDate is before D has not. *)
C8_EndDateInclusive ==
    \A p \in ProcIds :
       (run[p].pc = "returned" /\ run[p].errors = {}) =>
          \A rt \in Listed(p) :
             /\ (/\ rt.endDate = <<RunDate(p)>>
                 /\ ~AlreadyProcessed(rt, run[p].today, tz)
                 /\ ~StartDateInFuture(rt, run[p].today)
                 /\ FrequencyMatches(rt, run[p].today, tz))
                => EmittedInRun(rt.id) # {}
             /\ (rt.endDate # Null /\ rt.endDate[1] < RunDate(p))
                => EmittedInRun(rt.id) = {}

(* C9: when a run on date D returns without failure, a listed definition
   whose startDate is D and whose other guards and frequency rule pass has
   been emitted, and one whose startDate is after D has not. *)
C9_StartDateInclusive ==
    \A p \in ProcIds :
       (run[p].pc = "returned" /\ run[p].errors = {}) =>
          \A rt \in Listed(p) :
             /\ (/\ rt.startDate = RunDate(p)
                 /\ ~AlreadyProcessed(rt, run[p].today, tz)
                 /\ ~EndDatePassed(rt, run[p].today)
                 /\ FrequencyMatches(rt, run[p].today, tz))
                => EmittedInRun(rt.id) # {}
             /\ rt.startDate > RunDate(p) => EmittedInRun(rt.id) = {}

(* C10: when a run on date D returns, a listed weekly definition that passed
   the already-processed, end-date and start-date guards and met no failure
   has been emitted if and only if its dayOfWeek is set and equals the
   weekday of D. *)
C10_WeeklyOnConfiguredWeekday ==
    \A p \in ProcIds :
       run[p].pc = "returned" =>
          \A rt \in Listed(p) :
             (/\ rt.frequency = "weekly"
              /\ ~AlreadyProcessed(rt, run[p].today, tz)
              /\ ~EndDatePassed(rt, run[p].today)
              /\ ~StartDateInFuture(rt, run[p].today)
              /\ rt.id \notin run[p].errors)
             => (EmittedInRun(rt.id) # {}
                   <=> (rt.dayOfWeek # Null
                          /\ rt.dayOfWeek[1] = Weekday(RunDate(p))))

\* A weekly definition anchored on Sunday (dayOfWeek 0) was emitted by a run
\* on a host that is not on UTC.
C10_Witness ==
    \E p \in ProcIds :
       /\ run[p].pc = "returned"
       /\ tz # 0
       /\ \E rt \in Listed(p) :
             /\ rt.frequency = "weekly"
             /\ rt.dayOfWeek = <<0>>
             /\ EmittedInRun(rt.id) # {}

(* C11: when a run on date D returns, a listed monthly definition that passed
   the guards and met no failure has been emitted if and only if its
   dayOfMonth is set and equals the day of the month of D; and a monthly
   definition whose dayOfMonth is beyond the last day of D's month (31 in
   February) has not been emitted. *)
C11_MonthlyOnConfiguredDay ==
    \A p \in ProcIds :
       run[p].pc = "returned" =>
          \A rt \in Listed(p) :
             rt.frequency = "monthly" =>
                /\ PassedGuards(p, rt) =>
                      (EmittedInRun(rt.id) # {}
                         <=> (rt.dayOfMonth # Null
                                /\ rt.dayOfMonth[1] = DayOfMonth(RunDate(p))))
                /\ (rt.dayOfMonth # Null
                      /\ rt.dayOfMonth[1] > DaysInMonth(RunDate(p)))
                   => EmittedInRun(rt.id) = {}

\* On 29 February 2024, on a host that is not on UTC, a run returned that
\* emitted the definition of the 29th and not the definition of the 31st.
C11_Witness ==
    \E p \in ProcIds :
       /\ run[p].pc = "returned"
       /\ tz # 0
       /\ RunDate(p) = DaysFromCivil(2024, 2, 29)
       /\ \E r29, r31 \in Listed(p) :
             /\ r29.dayOfMonth = <<29>> /\ EmittedInRun(r29.id) # {}
             /\ r31.dayOfMonth = <<31>> /\ PassedGuards(p, r31)
             /\ EmittedInRun(r31.id) = {}

(* C12: when a run on date D returns, a listed yearly definition that passed
   the guards and met no failure has been emitted if and only if the month
   and the day of the month of D equal those of its startDate. *)
C12_YearlyOnAnniversary ==
    \A p \in ProcIds :
       run[p].pc = "returned" =>
          \A rt \in Listed(p) :
             (rt.frequency = "yearly" /\ PassedGuards(p, rt))
             => (EmittedInRun(rt.id) # {}
                   <=> (/\ MonthOf(RunDate(p)) = MonthOf(rt.startDate)
                        /\ DayOfMonth(RunDate(p)) = DayOfMonth(rt.startDate)))

(* C13: when a run on date D returns without failure, every listed (active)
   daily definition with startDate <= D, endDate absent or >= D, and
   lastProcessedDate absent or different from D has been emitted. *)
C13_DailyEveryDay ==
    \A p \in ProcIds :
       (run[p].pc = "returned" /\ run[p].errors = {}) =>
          \A rt \in Listed(p) :
             (/\ rt.frequency = "daily"
              /\ rt.isActive
              /\ rt.startDate <= RunDate(p)
              /\ rt.endDate = Null \/ rt.endDate[1] >= RunDate(p)
              /\ rt.lastProcessedDate = Null
                    \/ rt.lastProcessedDate[1] # RunDate(p))
             => EmittedInRun(rt.id) # {}

\* A stored definition has the anchor its frequency needs.
Anchored(rt) ==
    /\ rt.frequency = "weekly" =>
          rt.dayOfWeek # Null /\ rt.dayOfWeek[1] \in 0 .. 6
    /\ rt.frequency = "monthly" =>
          rt.dayOfMonth # Null /\ rt.dayOfMonth[1] \in 1 .. 31

(* C14: every request leaves every stored weekly definition with a dayOfWeek
   in 0..6 and every stored monthly definition with a dayOfMonth in 1..31,
   and a request answered 400 leaves the definitions as they were. *)
C14_AnchorsAlwaysStored ==
    [][/\ \A id \in DOMAIN defs' : Anchored(defs'[id])
       /\ response'.status = 400 => defs' = defs]_vars

(* C15: a definition is created with lastProcessedDate null; the only step
   that changes the lastProcessedDate of a stored definition is the
   processor's update after it created the definition's transaction; and
   every emission the processor counts has written it. *)
C15_OnlyProcessorWritesLastProcessed ==
    [][/\ \A id \in DOMAIN defs' \ DOMAIN defs :
             defs'[id].lastProcessedDate = Null
       /\ \A id \in DOMAIN defs' \cap DOMAIN defs :
             defs'[id].lastProcessedDate # defs[id].lastProcessedDate =>
                \E p \in DOMAIN run :
                   /\ run[p].pc = "created"
                   /\ CurrentRt(p).id = id
                   /\ run'[p].pc = "loop"
                   /\ run'[p].transactionsCreated
                         = run[p].transactionsCreated + 1
       /\ \A p \in DOMAIN run :
             (/\ run[p].pc = "created"
              /\ run'[p].transactionsCreated = run[p].transactionsCreated + 1
              /\ CurrentRt(p).id \in DOMAIN defs)
             => defs'[CurrentRt(p).id].lastProcessedDate
                   = <<formattedDate(run[p].today)>>]_vars

\* The value of today in an invocation on a host at offset off whose clock
\* shows hour h of calendar date d.
TodayOf(d, h, off) == SetHoursZero(ParseDate(d) + h - off, off)

(* C16: while an invocation on host date D is at a definition, an invocation
   on any other host, at any hour of the same host date D, would take the
   same decision on the definition as read and write the same date; and
   every transaction the invocation has created, and the lastProcessedDate
   written with it, carry D. *)
C16_CalendarDateGranularity ==
    \A p \in ProcIds :
       /\ InLoopBody(p) =>
             \A off \in HostOffsets, h \in CalendarHours :
                /\ shouldProcess(CurrentRt(p), TodayOf(RunDate(p), h, off), off)
                      = shouldProcess(CurrentRt(p), run[p].today, tz)
                /\ formattedDate(TodayOf(RunDate(p), h, off))
                      = formattedDate(run[p].today)
       /\ run[p].pc \in {"loop", "returned"} =>
             \A k \in DOMAIN txs :
                txs[k].run = run[p].no =>
                   /\ txs[k].date = RunDate(p)
                   /\ txs[k].src \in run[p].errors
                        \/ defs[txs[k].src].lastProcessedDate = <<RunDate(p)>>

(* C17: nothing serialises invocations: while one invocation is in progress
   another can begin, and an invocation whose snapshot says a definition is
   due can create its transaction whatever the other invocation has created
   or written since the snapshot was read. *)
C17_OverlappingRunsCanRace ==
    \A p \in RaceIds :
       /\ (run[p].pc = "idle" /\ runs < MaxRuns) => ENABLED BeginRun(p)
       /\ (InLoopBody(p) /\ shouldProcess(CurrentRt(p), run[p].today, tz))
          => ENABLED CreateTx(p)

\* On a UTC host both invocations, started on the same date, read definition
\* d before either wrote its lastProcessedDate, and both have created a
\* transaction for d: two rows for one definition and date.
C17_Witness ==
    /\ tz = 0
    /\ run[1].pc = "created" /\ run[2].pc = "created"
    /\ run[1].today = run[2].today
    /\ CurrentRt(1).id = CurrentRt(2).id
    /\ CurrentRt(1).lastProcessedDate = Null
    /\ CurrentRt(2).lastProcessedDate = Null
    /\ defs[CurrentRt(1).id].lastProcessedDate = Null
    /\ \E i, j \in DOMAIN txs :
          /\ i # j
          /\ txs[i].src = CurrentRt(1).id /\ txs[j].src = CurrentRt(1).id
          /\ txs[i].date = txs[j].date
          /\ txs[i].run # txs[j].run

(* C18: a stored lastProcessedDate is never later than the host's calendar
   date at the latest invocation of the processor. *)
C18_LastProcessedNotAfterLastRun ==
    \A id \in DOMAIN defs :
       defs[id].lastProcessedDate # Null =>
          /\ lastRunDate # Null
          /\ defs[id].lastProcessedDate[1] <= lastRunDate[1]

\* Definition rt references a row of cats owned by rt's owner or by userId 0.
CategoryAllowed(rt, cats) ==
    /\ rt.categoryId \in DOMAIN cats
    /\ cats[rt.categoryId].userId \in {rt.userId, 0}

(* C19: every request leaves every stored definition referencing an existing
   category that belongs to the definition's owner or to userId 0, and a
   request stores a new category reference only if the category named was
   such a category when the request arrived. *)
C19_CategoryOfOwnerOrShared ==
    [][/\ \A id \in DOMAIN defs' : CategoryAllowed(defs'[id], categories')
       /\ \A id \in DOMAIN defs' :
             (id \notin DOMAIN defs
                \/ defs'[id].categoryId # defs[id].categoryId)
             => CategoryAllowed(defs'[id], categories)]_vars

(* C20: every transaction an invocation on date D has created carries the
   userId, type, amount, description, categoryId and notes of a definition
   the invocation listed, as it read it, and the date D. *)
C20_TransactionCopiesDefinition ==
    \A p \in ProcIds :
       run[p].pc # "idle" =>
          \A k \in DOMAIN txs :
             txs[k].run = run[p].no =>
                \E rt \in Listed(p) :
                   /\ rt.id = txs[k].src
                   /\ txs[k].userId = rt.userId
                   /\ txs[k].type = rt.type
                   /\ txs[k].amount = rt.amount
                   /\ txs[k].description = rt.description
                   /\ txs[k].categoryId = rt.categoryId
                   /\ txs[k].notes = rt.notes
                   /\ txs[k].date = RunDate(p)

\* Invocation p has created a transaction for definition id.
EmittedBy(p, id) ==
    {k \in DOMAIN txs : txs[k].run = run[p].no /\ txs[k].src = id}

(* C21: a step of the processor leaves the categories, the budgets and every
   transaction already stored as they are, adds or removes no definition,
   and changes a definition only by setting the lastProcessedDate of the
   definition it has just created a transaction for; this also when
   requests of the owners are served between the steps. *)
C21_RunChangesOnlyItsOwn ==
    [][run' # run =>
          /\ categories' = categories
          /\ budgets' = budgets
          /\ DOMAIN defs' = DOMAIN defs
          /\ Len(txs') >= Len(txs)
          /\ SubSeq(txs', 1, Len(txs)) = txs
          /\ \A id \in DOMAIN defs :
                defs'[id] # defs[id] =>
                   \E p \in DOMAIN run :
                      /\ run[p].pc = "created"
                      /\ CurrentRt(p).id = id
                      /\ EmittedBy(p, id) # {}
                      /\ defs'[id] =
                            [defs[id] EXCEPT !.lastProcessedDate =
                                <<formattedDate(run[p].today)>>]]_vars

\* An invocation in progress has emitted a definition and written its
\* lastProcessedDate, and the definition is stored inactive, as its owner
\* set it after the invocation had listed it.
C21_Witness ==
    \E p \in ProcIds :
       /\ run[p].pc = "loop"
       /\ \E rt \in Listed(p) :
             /\ rt.id \in DOMAIN defs
             /\ ~defs[rt.id].isActive
             /\ rt.lastProcessedDate = Null
             /\ defs[rt.id].lastProcessedDate = <<formattedDate(run[p].today)>>
             /\ EmittedBy(p, rt.id) # {}

\* A stored definition the evaluator has no rule for: weekly without
\* dayOfWeek, monthly without dayOfMonth, or a frequency outside the four.
Malformed(rt) ==
    \/ rt.frequency = "weekly" /\ rt.dayOfWeek = Null
    \/ rt.frequency = "monthly" /\ rt.dayOfMonth = Null
    \/ rt.frequency \notin {"daily", "weekly", "monthly", "yearly"}

(* C22: when the loop of the processor is at a malformed definition, its step
   creates no transaction, leaves every definition (so the definition's
   lastProcessedDate) as it is, records no error and moves on to the next
   definition. *)
C22_MalformedNeverMatches ==
    [][\A p \in ProcIds :
          (InLoopBody(p) /\ Malformed(CurrentRt(p)) /\ run'[p] # run[p])
          => /\ txs' = txs
             /\ defs' = defs
             /\ run'[p] = [run[p] EXCEPT !.idx = @ + 1]]_vars

\* A run returned without an error having passed a malformed definition that
\* the three date guards let through, with nothing emitted for it and its
\* lastProcessedDate as listed.
C22_Witness ==
    \E p \in ProcIds :
       /\ run[p].pc = "returned"
       /\ run[p].errors = {}
       /\ \E rt \in Listed(p) :
             /\ Malformed(rt)
             /\ PassedGuards(p, rt)
             /\ EmittedInRun(rt.id) = {}
             /\ defs[rt.id].lastProcessedDate = rt.lastProcessedDate

\* The definitions invocation p listed that are due on its date.
Due(p) == {rt \in Listed(p) : shouldProcess(rt, run[p].today, tz)}

\* A transaction as the processor passes it to createTransaction.
Emitted(k) == [f \in DOMAIN txs[k] \ {"id"} |-> txs[k][f]]

(* C23: what an invocation has done when it returns is determined by the set
   of definitions it listed, its date and the definitions whose writes
   failed, whatever the order in which it visited them: the count is the
   number of due definitions without a failure; each of those has exactly
   one transaction, built from the row listed, and the lastProcessedDate of
   the run; a definition not due has no transaction and its lastProcessedDate
   as listed; a due one with a failure keeps its lastProcessedDate. *)
C23_OrderIndependent ==
    \A p \in ProcIds :
       run[p].pc = "returned" =>
          /\ run[p].transactionsCreated
                = Cardinality({rt \in Due(p) : rt.id \notin run[p].errors})
          /\ \A rt \in Listed(p) :
                /\ Cardinality(EmittedInRun(rt.id)) <= 1
                /\ \A k \in EmittedInRun(rt.id) :
                      Emitted(k) = createTransaction(
                                     NewTransaction(rt, run[p].today, run[p].no))
                /\ (rt \in Due(p) /\ rt.id \notin run[p].errors)
                   => /\ EmittedInRun(rt.id) # {}
                      /\ defs[rt.id].lastProcessedDate
                            = <<formattedDate(run[p].today)>>
                /\ rt \notin Due(p)
                   => /\ EmittedInRun(rt.id) = {}
                      /\ defs[rt.id].lastProcessedDate = rt.lastProcessedDate
                /\ rt.id \in run[p].errors
                   => defs[rt.id].lastProcessedDate = rt.lastProcessedDate

\* A run returned that visited definition 2 before definition 1, one of them
\* due and emitted, the other not due.
C23_Witness ==
    \E p \in ProcIds :
       /\ run[p].pc = "returned"
       /\ Len(run[p].allRecurringTxs) = 2
       /\ run[p].allRecurringTxs[1].id = 2
       /\ run[p].allRecurringTxs[1] \notin Due(p)
       /\ run[p].allRecurringTxs[2] \in Due(p)
       /\ run[p].transactionsCreated = 1

\* The number of transactions invocation p has created for definition id.
CreatedFor(p, id) == Cardinality(EmittedBy(p, id))

(* C24: an invocation that has listed the definitions returns; until then
   each step of its loop either moves from a definition to the next one or
   creates the one transaction of the definition it is at; the listing holds
   no definition twice, and at every moment a definition already visited
   has at most one transaction of this run and one not yet visited has
   none, whether or not its steps failed. *)
C24_TerminatesVisitingOnce ==
    /\ [](\A p \in ProcIds :
            run[p].pc \in {"loop", "created", "returned"} =>
               /\ run[p].idx \in 1 .. Len(run[p].allRecurringTxs) + 1
               /\ run[p].pc = "returned"
                     => run[p].idx = Len(run[p].allRecurringTxs) + 1
               /\ \A j, k \in DOMAIN run[p].allRecurringTxs :
                     run[p].allRecurringTxs[j].id = run[p].allRecurringTxs[k].id
                        => j = k
               /\ \A k \in DOMAIN run[p].allRecurringTxs :
                     CreatedFor(p, run[p].allRecurringTxs[k].id)
                        <= IF k < run[p].idx
                              \/ (k = run[p].idx /\ run[p].pc = "created")
                           THEN 1 ELSE 0)
    /\ [][\A p \in ProcIds :
            (run[p].pc \in {"loop", "created"} /\ run'[p] # run[p]) =>
               \/ run'[p].pc = "loop" /\ run'[p].idx = run[p].idx + 1
               \/ /\ run[p].pc = "loop" /\ run'[p].pc = "created"
                  /\ run'[p].idx = run[p].idx
                  /\ Len(txs') = Len(txs) + 1
               \/ /\ run[p].pc = "loop" /\ run'[p].pc = "returned"
                  /\ run[p].idx = Len(run[p].allRecurringTxs) + 1
                  /\ run'[p].idx = run[p].idx]_vars
    /\ \A p \in ProcIds :
          (run[p].pc \in {"loop", "created"}) ~> (run[p].pc = "returned")

\* A run has returned from a listing of two definitions, the UPDATE of one of
\* which failed after its transaction had been created.
C24_Witness ==
    \E p \in ProcIds :
       /\ run[p].pc = "returned"
       /\ Len(run[p].allRecurringTxs) = 2
       /\ \E id \in run[p].errors : CreatedFor(p, id) = 1

(* C25: a definition created by POST /api/recurring-transactions, answered
   201, is stored with the dayOfWeek and the dayOfMonth of the request's
   body. *)
C25_AnchorsStoredAsSupplied ==
    [][\A u \in Users, body \in ApiCreateBodies :
          (CreateRecurring(u, body) /\ response'.status = 201)
          => /\ defs'[nextId].dayOfWeek = Field(body, "dayOfWeek")
             /\ defs'[nextId].dayOfMonth = Field(body, "dayOfMonth")]_vars

(* C26: when an invocation returns, for every definition it listed the
   three effects are all there or all absent: a transaction of this run
   exists for the definition exactly when this run has set the definition's
   lastProcessedDate to the run date, and the count returned is the number
   of definitions with such a transaction. *)
C26_EffectsGoTogether ==
    \A p \in ProcIds :
       run[p].pc = "returned" =>
          /\ \A rt \in Listed(p) :
                (EmittedInRun(rt.id) # {})
                <=> /\ defs[rt.id].lastProcessedDate = <<RunDate(p)>>
                    /\ defs[rt.id].lastProcessedDate # rt.lastProcessedDate
          /\ run[p].transactionsCreated
                = Cardinality({rt \in Listed(p) : EmittedInRun(rt.id) # {}})

(* C27: every transaction a step creates comes from a definition that, at
   that step, is stored and active. *)
C27_NoEmissionForDeletedOrInactive ==
    [][\A k \in DOMAIN txs' \ DOMAIN txs :
          /\ txs'[k].src \in DOMAIN defs
          /\ defs[txs'[k].src].isActive]_vars

\* The request is answered 403 and no table and no serial changes.
Denied ==
    /\ response'.status = 403
    /\ UNCHANGED <<categories, nextCatId, defs, nextId, txs, nextTxId,
                   budgets, nextBudgetId, runDates>>

(* C28: a GET, PUT or DELETE by id of a transaction, a PUT or DELETE by id of
   a budget or a category, and a GET, PUT or DELETE by id of a recurring
   definition, sent by a user whose id is not the stored record's userId,
   is answered 403 and changes nothing stored: a step that is not such a
   denial is no such request. *)
C28_OnlyOwnerById ==
    [][\/ Denied
       \/ \A u \in Users :
             /\ \A id \in OwnTxIds :
                   (TxAt(id) # {} /\ getTransactionById(id).userId # u)
                   => ~(\/ GetTransaction(u, id)
                        \/ DeleteTransaction(u, id)
                        \/ \E body \in OwnTxEdits :
                              UpdateTransaction(u, id, body))
             /\ \A id \in OwnBudgetIds :
                   (id \in DOMAIN budgets /\ budgets[id].userId # u)
                   => ~(\/ DeleteBudget(u, id)
                        \/ \E body \in OwnBodies : UpdateBudget(u, id, body))
             /\ \A id \in AllCatIds :
                   (id \in DOMAIN categories /\ categories[id].userId # u)
                   => ~(\/ DeleteCategory(u, id)
                        \/ \E body \in OwnBodies :
                              UpdateCategory(u, id, body))
             /\ \A id \in DefIds :
                   (id \in DOMAIN defs /\ defs[id].userId # u)
                   => ~(\/ GetRecurring(u, id)
                        \/ DeleteRecurring(u, id)
                        \/ \E body \in OwnBodies :
                              UpdateRecurring(u, id, body))]_vars

\* A request by id was denied while a transaction, a budget and a
\* definition are stored, one of them owned by user 3 by now.
C28_Witness ==
    /\ response.status = 403
    /\ txs # <<>> /\ DOMAIN budgets # {} /\ DOMAIN defs # {}
    /\ \/ \E k \in DOMAIN txs : txs[k].userId = 3
       \/ \E b \in DOMAIN budgets : budgets[b].userId = 3
       \/ \E d \in DOMAIN defs : defs[d].userId = 3

(* C29: no step changes the userId or the id of a stored transaction,
   budget, category or recurring definition. *)
C29_OwnerNeverChanges ==
    [][/\ \A id \in DOMAIN defs \cap DOMAIN defs' :
             defs'[id].userId = defs[id].userId /\ defs'[id].id = id
       /\ \A id \in DOMAIN budgets \cap DOMAIN budgets' :
             budgets'[id].userId = budgets[id].userId /\ budgets'[id].id = id
       /\ \A id \in DOMAIN categories \cap DOMAIN categories' :
             categories'[id].userId = categories[id].userId
       /\ \A k \in DOMAIN txs, j \in DOMAIN txs' :
             txs'[j].id = txs[k].id => txs'[j].userId = txs[k].userId]_vars

\* The transactions the processor created for definition id, in any run.
EmittedFor(id) == {k \in DOMAIN txs : txs[k].src = id}

(* C30: every transaction of an invocation carries the host's calendar date
   of that invocation; so every transaction the processor created is dated
   a date on which the processor ran, and no definition has more
   transactions than there are distinct dates on which the processor ran. *)
C30_NoCatchUp ==
    /\ \A p \in ProcIds :
          run[p].pc \in {"loop", "created", "returned"} =>
             \A k \in DOMAIN txs :
                txs[k].run = run[p].no => txs[k].date = RunDate(p)
    /\ \A k \in DOMAIN txs : txs[k].src # 0 => txs[k].date \in runDates
    /\ \A id \in DOMAIN defs :
          Cardinality(EmittedFor(id)) <= Cardinality(runDates)

====
